---- MODULE Spec2Model ----
(***************************************************************************)
(* seqda: a hierarchical state container.  The model follows src/index.js  *)
(* (the second implementation in src/webpack.config.js, lines 289-644):    *)
(* scopes compiled from a template, setPath's copy-on-write state tree    *)
(* over a heap of JavaScript objects, the per-scope method cache, and the  *)
(* microtask-batched 'update' event.                                       *)
(***************************************************************************)
EXTENDS Integers, Sequences, FiniteSets, TLC

\* ------------------------------------------------------------------ bounds
\* Number of top-level calls (scope methods, hydrate) a behaviour makes.
MaxOps == 3
\* Number of custom events the caller emits through the store.
MaxCustom == 1
MaxClones == 1

\* Bind(v, F): F applied to the value of v, with v evaluated once.
Bind(v, F(_)) == CHOOSE r \in {F(x) : x \in {v}} : TRUE

\* ------------------------------------------------------- JavaScript values
\* A value is a primitive number, undefined, or a reference to a heap object.
Num(n) == [k |-> "num", n |-> n]
Ref(a) == [k |-> "ref", n |-> a]
Undef  == [k |-> "undef", n |-> 0]

IsRef(v) == v.k = "ref"

\* typeof v === 'object' && v (non-null object or array)
IsObject(v) == IsRef(v)

\* JavaScript truthiness: !value is true for undefined and 0.
Truthy(v) == IsRef(v) \/ (v.k = "num" /\ v.n # 0)

\* A heap object: a plain object (arr = FALSE) or an array; items are the
\* index-keyed elements of an array, props the other own enumerable keys.
NoProps == [x \in {} |-> Undef]
NewObject(props) == [arr |-> FALSE, frozen |-> FALSE, items |-> <<>>, props |-> props]
NewArray(items)  == [arr |-> TRUE,  frozen |-> FALSE, items |-> items, props |-> NoProps]

Deref(heap, v) == heap[v.n]

\* Allocation appends to the heap; the new object's address is its index.
Alloc(heap, obj) == [heap |-> Append(heap, obj), ref |-> Ref(Len(heap) + 1)]

\* Keys that are canonical array indices, in ascending numeric order.
DigitKeys == <<"0", "1", "2", "3">>
IsArrayIndex(key) == \E i \in 1..Len(DigitKeys) : DigitKeys[i] = key
IndexOf(key) == CHOOSE i \in 1..Len(DigitKeys) : DigitKeys[i] = key

\* obj[key] for a value that may be a primitive (a missing key is undefined).
GetProp(heap, v, key) ==
  IF ~IsRef(v) THEN Undef
  ELSE LET o == Deref(heap, v) IN
       IF o.arr /\ IsArrayIndex(key)
         THEN (IF IndexOf(key) <= Len(o.items) THEN o.items[IndexOf(key)] ELSE Undef)
         ELSE (IF key \in DOMAIN o.props THEN o.props[key] ELSE Undef)

\* Object.freeze(v): a no-op on primitives.
\* The references held by an object: its elements and its property values.
ChildRefs(obj) ==
  {obj.items[i] : i \in {j \in 1..Len(obj.items) : IsRef(obj.items[j])}}
    \cup {obj.props[key] : key \in {x \in DOMAIN obj.props : IsRef(obj.props[x])}}

\* A freeze that also freezes what the object holds.
FreezeWithChildren(heap, v) ==
  IF IsRef(v)
    THEN [a \in 1..Len(heap) |->
            IF a = v.n \/ Ref(a) \in ChildRefs(heap[v.n])
              THEN [heap[a] EXCEPT !.frozen = TRUE] ELSE heap[a]]
    ELSE heap

Freeze(heap, v) ==
  IF IsRef(v) THEN [heap EXCEPT ![v.n].frozen = TRUE] ELSE heap

\* obj[key] = val in strict mode: throws on a primitive and on a frozen object.
CanAssign(heap, v) == IsRef(v) /\ ~Deref(heap, v).frozen

PutProp(props, key, val) ==
  [x \in (DOMAIN props) \cup {key} |-> IF x = key THEN val ELSE props[x]]

Assign(heap, v, key, val) ==
  [heap EXCEPT ![v.n].props = PutProp(@, key, val)]

\* --------------------------------------------------- copy-on-write writer
\* Object.keys(source) without the keys matching /^\d+$/.
NonIndexKeys(heap, source) ==
  IF IsRef(source)
    THEN {key \in DOMAIN Deref(heap, source).props : ~IsArrayIndex(key)}
    ELSE {}

\* A copyKeysToArray that copies nothing.
CopyKeysToArrayNothing(heap, value, source) == [heap |-> heap, threw |-> FALSE]

\* copyKeysToArray(value, source): copies the non-index keys of source onto
\* the array value, in place.  The assignment throws when value is frozen.
CopyKeysToArray(heap, value, source) ==
  IF IsRef(value) /\ Deref(heap, value).arr /\ Truthy(source)
       /\ NonIndexKeys(heap, source) # {}
    THEN IF Deref(heap, value).frozen
           THEN [heap |-> heap, threw |-> TRUE]
           ELSE [heap |-> [heap EXCEPT ![value.n].props =
                             [x \in (DOMAIN @) \cup NonIndexKeys(heap, source) |->
                                IF x \in NonIndexKeys(heap, source)
                                  THEN Deref(heap, source).props[x] ELSE @[x]]],
                 threw |-> FALSE]
    ELSE [heap |-> heap, threw |-> FALSE]

\* A clone that also copies the objects held as properties.
cloneWithChildren(heap, value) ==
  IF ~Truthy(value) \/ ~IsObject(value)
    THEN [heap |-> heap, ref |-> value]
    ELSE LET obj  == Deref(heap, value)
             held == {key \in DOMAIN obj.props : IsRef(obj.props[key])}
             kids == CHOOSE f \in [1..Cardinality(held) -> held] :
                       \A i, j \in 1..Cardinality(held) : i # j => f[i] # f[j]
             copies == [i \in 1..Cardinality(held) |->
                          [heap[obj.props[kids[i]].n] EXCEPT !.frozen = FALSE]]
         IN Alloc(heap \o copies,
                  [obj EXCEPT !.frozen = FALSE,
                              !.props = [key \in DOMAIN obj.props |->
                                           IF key \in held
                                             THEN Ref(Len(heap)
                                                      + (CHOOSE i \in 1..Cardinality(held) :
                                                           kids[i] = key))
                                             ELSE obj.props[key]]])

\* clone(value): a shallow copy of a container, the value itself otherwise.
clone(heap, value) ==
  IF ~Truthy(value) \/ ~IsObject(value)
    THEN [heap |-> heap, ref |-> value]
    ELSE IF Deref(heap, value).arr
           THEN Bind(Alloc(heap, NewArray(Deref(heap, value).items)), LAMBDA a :
                  [heap |-> CopyKeysToArray(a.heap, a.ref, value).heap, ref |-> a.ref])
           ELSE Alloc(heap, NewObject(Deref(heap, value).props))

\* path.split('.'), for the dotted paths of the scopes of the templates; a
\* path is kept as the one-element sequence of its dotted string.
Split(path) ==
  CASE path = <<"items.subItems">>   -> <<"items", "subItems">>
    [] path = <<"values.subValues">> -> <<"values", "subValues">>
    [] OTHER                         -> path

\* The last step of setPath with a deep freeze of the value: what the value
\* holds is frozen with it.
SetPathLastDeepFreeze(heap, current, pathPart, value) ==
  Bind(IF IsRef(value) /\ Deref(heap, value).arr
         THEN (IF current.k = "undef"
                 THEN [heap |-> heap, threw |-> TRUE]
                 ELSE CopyKeysToArray(heap, value, GetProp(heap, current, pathPart)))
         ELSE [heap |-> heap, threw |-> FALSE],
       LAMBDA ck :
         IF ck.threw THEN ck
         ELSE IF ~CanAssign(ck.heap, current)
           THEN [heap |-> FreezeWithChildren(ck.heap, value), threw |-> TRUE]
           ELSE [heap |-> Freeze(Assign(FreezeWithChildren(ck.heap, value),
                                        current, pathPart, value),
                                 current),
                 threw |-> FALSE])

\* The last step of setPath's loop: store the value at pathPart of current.
\* Reading a property of undefined throws, and so does a write to a primitive
\* or to a frozen object (the module is strict-mode code).
SetPathLast(heap, current, pathPart, value) ==
  Bind(IF IsRef(value) /\ Deref(heap, value).arr
         THEN (IF current.k = "undef"
                 THEN [heap |-> heap, threw |-> TRUE]
                 ELSE CopyKeysToArray(heap, value, GetProp(heap, current, pathPart)))
         ELSE [heap |-> heap, threw |-> FALSE],
       LAMBDA ck :
         IF ck.threw THEN ck
         ELSE IF ~CanAssign(ck.heap, current)
           THEN [heap |-> Freeze(ck.heap, value), threw |-> TRUE]
           ELSE [heap |-> Freeze(Assign(Freeze(ck.heap, value), current, pathPart, value),
                                 current),
                 threw |-> FALSE])

\* The loop of setPath: current is the container reached so far.
RECURSIVE SetPathFrom(_, _, _, _)
SetPathFrom(heap, current, pathParts, value) ==
  IF Len(pathParts) = 1
    THEN SetPathLast(heap, current, Head(pathParts), value)
    ELSE IF current.k = "undef"
           THEN [heap |-> heap, threw |-> TRUE]
           ELSE Bind(clone(heap, GetProp(heap, current, Head(pathParts))), LAMBDA c :
                  IF ~CanAssign(c.heap, current)
                    THEN [heap |-> c.heap, threw |-> TRUE]
                    ELSE Bind(Freeze(Assign(c.heap, current, Head(pathParts), c.ref), current),
                              LAMBDA h : SetPathFrom(h, c.ref, Tail(pathParts), value)))

\* setPath(_context, path, value): the new root, sharing every subtree off
\* the path with _context.
setPath(heap, context, path, value) ==
  Bind(clone(heap, context), LAMBDA c :
    Bind(SetPathFrom(c.heap, c.ref, Split(path), value), LAMBDA r :
      [heap |-> r.heap, root |-> c.ref, threw |-> r.threw]))

\* The value reached from root by a sequence of keys, undefined when a step
\* is missing.
RECURSIVE GetParts(_, _, _)
GetParts(heap, root, parts) ==
  IF parts = <<>> THEN root
  ELSE IF ~IsRef(root) THEN Undef
  ELSE GetParts(heap, GetProp(heap, root, Head(parts)), Tail(parts))

\* Nife.get(root, path): the value at a dotted path.
NifeGet(heap, root, path) == GetParts(heap, root, Split(path))

\* Structural equality of two values: same primitive, or containers of the
\* same kind whose elements and properties are structurally equal.
RECURSIVE DeepEqual(_, _, _)
DeepEqual(heap, a, b) ==
  IF a = b THEN TRUE
  ELSE IF ~IsRef(a) \/ ~IsRef(b) THEN FALSE
  ELSE LET x == Deref(heap, a)
           y == Deref(heap, b)
       IN /\ x.arr = y.arr
          /\ Len(x.items) = Len(y.items)
          /\ DOMAIN x.props = DOMAIN y.props
          /\ \A i \in 1..Len(x.items) : DeepEqual(heap, x.items[i], y.items[i])
          /\ \A key \in DOMAIN x.props : DeepEqual(heap, x.props[key], y.props[key])

\* Nife.propsDiffer(value, currentState): TRUE when the new value differs
\* from the stored one.
propsDiffer(heap, value, currentState) == ~DeepEqual(heap, value, currentState)

\* ------------------------------------------------------------- the machine
VARIABLES
  template,   \* the template given to createStore: scopes in declaration order
  heap,       \* the JavaScript heap: a sequence of objects
  stores,     \* the stores, in creation order; stores[1] is createStore's
  cache,      \* per scope, the `cache` variable of its closure
  log,        \* what listeners and the caller observed, in order
  nsets,      \* per scope, the number of state-changing sets so far
  nhyd,       \* the number of hydrate calls so far
  mode,       \* whose synchronous code runs: the caller's, or an 'update' listener's
  block,      \* the number of the current synchronous block
  ops,        \* top-level calls made so far
  customs,    \* custom events emitted so far
  emitOnFetch,\* options.emitOnFetch
  hist,       \* per scope and method, the last call that returned
  lastCall    \* the most recent top-level call and its outcome

vars == <<template, heap, stores, cache, log, nsets, nhyd, mode, block, ops,
          customs, emitOnFetch, hist, lastCall>>

\* The part of the state the store's functions read and write.
Machine == [heap |-> heap, stores |-> stores, cache |-> cache, log |-> log,
            nsets |-> nsets, nhyd |-> nhyd]

\* A scope of the template: its name and the kind of its default value `_`
\* (the number 0, or an empty array).
Scope(name, kind) == [name |-> name, kind |-> kind]

\* { counter: { _: 0, ... }, todos: { _: [], ... } }
TodoTemplate == << Scope("counter", "num"), Scope("todos", "arr") >>
\* { 2: { _: 0, ... }, 1: { _: 0, ... } }: scopes with integer-like names
IndexedTemplate == << Scope("2", "num"), Scope("1", "num") >>
\* { items:  { _: [], subItems:  { _: { key1: 1 }, ... }, ... },
\*   values: { _: { key1: 1 }, subValues: { _: { key1: 1 }, ... }, ... } }
ComplexTemplate ==
  << Scope("items", "list"), Scope("items.subItems", "obj"),
     Scope("values", "obj"), Scope("values.subValues", "obj") >>

ScopePaths == {<<template[i].name>> : i \in 1..Len(template)}
KindOf(path) == template[CHOOSE i \in 1..Len(template) : template[i].name = path[1]].kind

\* The methods the template declares on a scope of each kind:
\*   get:   ({ get }) => get()
\*   set:   ({ set }, v) => set(v)
\*   inc:   ({ get, set }) => set(get() + 1)
\*   add:   ({ get, set }, x) => { set([ ...get(), x ]) }
\*   touch: ({ get, set }) => set(get())
\*   copy:  ({ get, set }) => set([ ...get() ])
\*   put:    ({ get, set }, item) => { set([ ...get(), item ]) }
\*   update: ({ get, set }, values) => { set(Object.assign({}, get(), values || {})) }
MethodsOf(kind) ==
  CASE kind = "num"  -> {"get", "set", "inc"}
    [] kind = "arr"  -> {"get", "add", "touch", "copy"}
    [] kind = "list" -> {"get", "put"}
    [] kind = "obj"  -> {"get", "update"}
    [] OTHER         -> {}   \* not a scope
\* and a method a template may add to a list scope, which replaces the list
\* by its first item:
\*   first:  ({ get, set }) => set(get()[0])
Methods == {"get", "set", "inc", "add", "touch", "copy", "put", "update", "first"}

\* An object literal { id: n } among the arguments of a call: the caller
\* creates the object before the call.
Literal(n) == [k |-> "literal", n |-> n]

\* An array literal [ n ] among the arguments of a call.
ArrayLiteral(n) == [k |-> "arrliteral", n |-> n]

\* The argument lists a caller passes to a method.
ArgsOf(method) ==
  CASE method = "set" -> {<<Num(0)>>, <<Num(1)>>}
    [] method = "add" -> {<<Num(1)>>}
    [] method = "get" -> {<<>>, <<Num(1)>>}
    [] method = "put" -> {<<Literal(1)>>}
    [] method = "update" -> {<<Literal(1)>>, <<Literal(2)>>}
    [] OTHER          -> {<<>>}

NoEntry == [has |-> FALSE, args |-> <<>>, result |-> Undef]
EmptyCache == [m \in Methods |-> NoEntry]

\* A store: its INTERNAL_STATE, DISALLOW_WRITE, whether QUEUE_CHANGE_EVENT and
\* CLEAR_CACHES are defined on it, and QUEUE_CHANGE_INFO (promise, eventQueue,
\* previousStore).  scheduled counts the flush callbacks waiting in the
\* microtask queue; writes lists the state-changing writes not yet reported by
\* an 'update'.  user marks the clones the caller made with cloneStore, and
\* origin is the root of the source's state when such a clone was made.
Store(state, readOnly) ==
  [state |-> state, readOnly |-> readOnly, hasQueue |-> FALSE,
   hasClearCaches |-> FALSE, promise |-> FALSE,
   scheduled |-> 0, eventQueue |-> <<>>, previousStore |-> 0, writes |-> <<>>,
   user |-> FALSE, origin |-> Undef]

Star == <<"*">>

\* The result of a call: the machine after it, the value returned, whether it
\* threw, and how many method bodies ran.
Result(M, value, threw, ran) == [M |-> M, value |-> value, threw |-> threw, ran |-> ran]

\* path in info.eventQueue
InBatch(queue, path) == \E i \in 1..Len(queue) : queue[i] = path

\* info.eventQueue[path] = true: a key already present keeps its place.
AddKey(queue, path) ==
  IF \E i \in 1..Len(queue) : queue[i] = path THEN queue ELSE Append(queue, path)

\* An observation: an 'update', 'fetchScope' or custom event delivered to the
\* listeners of store s.  mode and block say when it was delivered; writes are
\* the writes made since the previous 'update' of that store.
Event(ev, s, path, modified, previousStore, writes) ==
  [ev |-> ev, store |-> s, path |-> path, modified |-> modified,
   previousStore |-> previousStore, writes |-> writes, mode |-> mode, block |-> block]


\* A write that changed the state of store s, not yet reported: from and to
\* are the roots of the state tree before and after it.
NoteWrite(M, s, path, from) ==
  [M EXCEPT !.stores[s].writes =
     Append(@, [path |-> path, block |-> block, mode |-> mode,
                from |-> from, to |-> M.stores[s].state])]

\* queueChangeEvent without the `if (!info.promise)` guard: every write
\* schedules a flush of its own.
queueChangeEventUnguarded(M, s, path) ==
  [M EXCEPT !.stores[s].promise    = TRUE,
            !.stores[s].scheduled  = @ + 1,
            !.stores[s].eventQueue = AddKey(@, path)]

\* queueChangeEvent that emits 'update' from inside the write instead of
\* from a scheduled callback.
queueChangeEventSync(M, s, path) ==
  [M EXCEPT !.log = Append(@, Event("update", s, <<>>, <<path>>,
                                    M.stores[s].previousStore, M.stores[s].writes)),
            !.stores[s].writes = <<>>]

\* queueChangeEvent that records the path and the promise but registers no
\* callback on it: nothing is put in the microtask queue.
queueChangeEventNoCallback(M, s, path) ==
  [M EXCEPT !.stores[s].promise    = TRUE,
            !.stores[s].eventQueue = AddKey(@, path)]

\* queueChangeEvent that tests the queue instead of the promise: a flush is
\* scheduled for every path that is new to the batch.
queueChangeEventPerPath(M, s, path) ==
  [M EXCEPT !.stores[s].promise    = TRUE,
            !.stores[s].scheduled  = IF InBatch(M.stores[s].eventQueue, path)
                                       THEN @ ELSE @ + 1,
            !.stores[s].eventQueue = AddKey(@, path)]

\* queueChangeEvent(path), without the callback it schedules (FlushCallback).
queueChangeEvent(M, s, path) ==
  [M EXCEPT !.stores[s].promise    = TRUE,
            !.stores[s].scheduled  = IF M.stores[s].promise THEN @ ELSE @ + 1,
            !.stores[s].eventQueue = AddKey(@, path)]

\* Object.assign({}, store[INTERNAL_STATE]), frozen for a read-only clone.
ClonedInternalState(M, s, readOnly) ==
  [NewObject(IF IsRef(M.stores[s].state) THEN Deref(M.heap, M.stores[s].state).props
                                         ELSE NoProps)
     EXCEPT !.frozen = readOnly]

\* cloneStore(store, true): a read-only clone.  Its scope methods are the
\* source's unbound methods bound to the clone: they keep the closure of the
\* scope they were created in, `cache` included.  initializeStore(clone, true)
\* only defines getState and DISALLOW_WRITE.
cloneStoreReadOnly(M, s) ==
  Bind(Alloc(M.heap, ClonedInternalState(M, s, TRUE)), LAMBDA a :
    [M  |-> [M EXCEPT !.heap = a.heap, !.stores = Append(@, Store(a.ref, TRUE))],
     id |-> Len(M.stores) + 1])

\* initializeStore(store): hydrate, QUEUE_CHANGE_EVENT and QUEUE_CHANGE_INFO
\* with previousStore: cloneStore(store, true).
initializeStore(M, s) ==
  Bind(cloneStoreReadOnly(M, s), LAMBDA c :
    [c.M EXCEPT !.stores[s].hasQueue = TRUE, !.stores[s].previousStore = c.id])

\* cloneStore(store): a writable clone.  Like the read-only one it runs the
\* source's methods, closures and caches included, on a state of its own;
\* initializeStore(clone) gives it hydrate and a change queue, and nothing
\* defines CLEAR_CACHES on it.
cloneStoreWritable(M, s) ==
  Bind(Alloc(M.heap, ClonedInternalState(M, s, FALSE)), LAMBDA a :
    [M  |-> initializeStore([M EXCEPT !.heap = a.heap,
                                      !.stores = Append(@, Store(a.ref, FALSE))],
                            Len(M.stores) + 1),
     id |-> Len(M.stores) + 1])

\* cloneStore(store, readyOnly)
cloneStore(M, s, readOnly) ==
  IF readOnly THEN cloneStoreReadOnly(M, s) ELSE cloneStoreWritable(M, s)

\* A get that reads the snapshot kept for the next 'update' (the state as of
\* the last flush) instead of the live state.
getStateOfSnapshot(M, s, path) ==
  Result(M,
         NifeGet(M.heap,
                 M.stores[IF M.stores[s].previousStore = 0 THEN s
                          ELSE M.stores[s].previousStore].state,
                 path),
         FALSE, 0)

\* A getState that emits 'fetchScope' whatever the options say.
getStateAlwaysEmits(M, s, path) ==
  Result([M EXCEPT !.log = Append(@, Event("fetchScope", s, path, <<>>, 0, <<>>))],
         NifeGet(M.heap, M.stores[s].state, path), FALSE, 0)

\* getState(): the scope's get.
getState(M, s, path) ==
  Result(IF emitOnFetch
           THEN [M EXCEPT !.log = Append(@, Event("fetchScope", s, path, <<>>, 0, <<>>))]
           ELSE M,
         NifeGet(M.heap, M.stores[s].state, path), FALSE, 0)

\* A write that resets the caches of every scope, not only its own.
WriteStateClearsAllCaches(M, s, path, value) ==
  Bind(setPath(M.heap, M.stores[s].state, path, value), LAMBDA sp :
    IF sp.threw THEN Result([M EXCEPT !.heap = sp.heap], Undef, TRUE, 0)
    ELSE Bind([M EXCEPT !.heap = sp.heap,
                        !.stores[s].state = sp.root,
                        !.cache = [p \in DOMAIN @ |-> EmptyCache],
                        !.nsets[path] = @ + 1],
              LAMBDA M1 :
                Result(IF M1.stores[s].hasQueue
                         THEN queueChangeEvent(NoteWrite(M1, s, path, M.stores[s].state), s, path)
                         ELSE M1,
                       value, FALSE, 0)))

\* A write that queues a change event whether or not the store has
\* QUEUE_CHANGE_EVENT yet.
WriteStateAlwaysQueues(M, s, path, value) ==
  Bind(setPath(M.heap, M.stores[s].state, path, value), LAMBDA sp :
    IF sp.threw THEN Result([M EXCEPT !.heap = sp.heap], Undef, TRUE, 0)
    ELSE Bind([M EXCEPT !.heap = sp.heap,
                        !.stores[s].state = sp.root,
                        !.cache[path] = EmptyCache,
                        !.nsets[path] = @ + 1],
              LAMBDA M1 :
                Result(queueChangeEvent(NoteWrite(M1, s, path, M.stores[s].state), s, path),
                       value, FALSE, 0)))

\* setState(value) from `previousState = currentState` on: the write.
WriteState(M, s, path, value) ==
  Bind(setPath(M.heap, M.stores[s].state, path, value), LAMBDA sp :
    IF sp.threw THEN Result([M EXCEPT !.heap = sp.heap], Undef, TRUE, 0)
    ELSE Bind([M EXCEPT !.heap = sp.heap,
                        !.stores[s].state = sp.root,
                        !.cache[path] = EmptyCache,
                        !.nsets[path] = @ + 1],
              LAMBDA M1 :
                Result(IF M1.stores[s].hasQueue
                         THEN queueChangeEvent(NoteWrite(M1, s, path, M.stores[s].state), s, path)
                         ELSE M1,
                       value, FALSE, 0)))

\* setState without the `value === currentState` check.
setStateNoIdentityCheck(M, s, path, value) ==
  IF M.stores[s].readOnly THEN Result(M, Undef, FALSE, 0)
  ELSE IF ~propsDiffer(M.heap, value, NifeGet(M.heap, M.stores[s].state, path))
    THEN Result(M, Undef, FALSE, 0)
  ELSE WriteState(M, s, path, value)

\* setState without the DISALLOW_WRITE check.
setStateOnReadOnly(M, s, path, value) ==
  IF Truthy(value) /\ IsObject(value)
       /\ value = NifeGet(M.heap, M.stores[s].state, path)
    THEN Result(M, Undef, TRUE, 0)
  ELSE IF ~propsDiffer(M.heap, value, NifeGet(M.heap, M.stores[s].state, path))
    THEN Result(M, Undef, FALSE, 0)
  ELSE WriteState(M, s, path, value)

\* setState without the Nife.propsDiffer check.
setStateAlwaysWrites(M, s, path, value) ==
  IF M.stores[s].readOnly THEN Result(M, Undef, FALSE, 0)
  ELSE IF Truthy(value) /\ IsObject(value)
            /\ value = NifeGet(M.heap, M.stores[s].state, path)
    THEN Result(M, Undef, TRUE, 0)
  ELSE WriteState(M, s, path, value)

\* setState that queues a change event for a value that does not differ
\* from the stored one (it still writes nothing).
setStateQueuesUnchanged(M, s, path, value) ==
  IF M.stores[s].readOnly THEN Result(M, Undef, FALSE, 0)
  ELSE IF Truthy(value) /\ IsObject(value)
            /\ value = NifeGet(M.heap, M.stores[s].state, path)
    THEN Result(M, Undef, TRUE, 0)
  ELSE IF ~propsDiffer(M.heap, value, NifeGet(M.heap, M.stores[s].state, path))
    THEN Result(IF M.stores[s].hasQueue THEN queueChangeEvent(M, s, path) ELSE M,
                Undef, FALSE, 0)
  ELSE WriteState(M, s, path, value)

\* setState(value): the scope's set.
setState(M, s, path, value) ==
  IF M.stores[s].readOnly THEN Result(M, Undef, FALSE, 0)
  ELSE IF Truthy(value) /\ IsObject(value)
            /\ value = NifeGet(M.heap, M.stores[s].state, path)
    THEN Result(M, Undef, TRUE, 0)
  ELSE IF ~propsDiffer(M.heap, value, NifeGet(M.heap, M.stores[s].state, path))
    THEN Result(M, Undef, FALSE, 0)
  ELSE WriteState(M, s, path, value)

\* add: ({ get, set }, x) => { set([ ...get(), x ]) }; g is the result of get().
AddBody(g, s, path, x) ==
  IF ~(IsRef(g.value) /\ Deref(g.M.heap, g.value).arr)
    THEN Result(g.M, Undef, TRUE, 0)   \* undefined is not iterable
    ELSE Bind(Alloc(g.M.heap, NewArray(Append(Deref(g.M.heap, g.value).items, x))), LAMBDA a :
           Bind(setState([g.M EXCEPT !.heap = a.heap], s, path, a.ref), LAMBDA r :
             Result(r.M, Undef, r.threw, 0)))

\* copy: ({ get, set }) => set([ ...get() ]); g is the result of get().
CopyBody(g, s, path) ==
  IF ~(IsRef(g.value) /\ Deref(g.M.heap, g.value).arr)
    THEN Result(g.M, Undef, TRUE, 0)   \* undefined is not iterable
    ELSE Bind(Alloc(g.M.heap, NewArray(Deref(g.M.heap, g.value).items)), LAMBDA a :
           setState([g.M EXCEPT !.heap = a.heap], s, path, a.ref))

\* update: Object.assign({}, get(), values), then set; g is the result of get().
UpdateBody(g, s, path, values) ==
  Bind(Alloc(g.M.heap,
             NewObject([key \in (IF IsRef(g.value)
                                   THEN DOMAIN Deref(g.M.heap, g.value).props ELSE {})
                                  \cup DOMAIN Deref(g.M.heap, values).props |->
                          IF key \in DOMAIN Deref(g.M.heap, values).props
                            THEN Deref(g.M.heap, values).props[key]
                            ELSE Deref(g.M.heap, g.value).props[key]])),
       LAMBDA a :
         Bind(setState([g.M EXCEPT !.heap = a.heap], s, path, a.ref), LAMBDA r :
           Result(r.M, Undef, r.threw, 0)))

\* The body of a template method, called with { get, set, store } and args.
Body(M, s, path, method, args) ==
  CASE method = "get" -> getState(M, s, path)
    [] method = "set" -> setState(M, s, path, args[1])
    [] method = "inc" ->
         Bind(getState(M, s, path), LAMBDA g : setState(g.M, s, path, Num(g.value.n + 1)))
    [] method = "add" ->
         Bind(getState(M, s, path), LAMBDA g : AddBody(g, s, path, args[1]))
    [] method = "touch" ->
         Bind(getState(M, s, path), LAMBDA g : setState(g.M, s, path, g.value))
    [] method = "copy" ->
         Bind(getState(M, s, path), LAMBDA g : CopyBody(g, s, path))
    [] method = "put" ->
         Bind(getState(M, s, path), LAMBDA g : AddBody(g, s, path, args[1]))
    [] method = "update" ->
         Bind(getState(M, s, path), LAMBDA g : UpdateBody(g, s, path, args[1]))
    [] method = "first" ->
         Bind(getState(M, s, path), LAMBDA g :
           IF ~IsRef(g.value) THEN Result(g.M, Undef, g.value.k = "undef", 0)
           ELSE setState(g.M, s, path, GetProp(g.M.heap, g.value, "0")))

\* isCacheInvalid that never finds a usable entry.
isCacheInvalidAlways(M, s, path, method, args) == TRUE

\* isCacheInvalid that compares the lengths of the argument lists only.
isCacheInvalidLengthOnly(M, s, path, method, args) ==
  \/ M.stores[s].readOnly
  \/ ~M.cache[path][method].has
  \/ Len(M.cache[path][method].args) # Len(args)

isCacheInvalid(M, s, path, method, args) ==
  \/ M.stores[s].readOnly
  \/ ~M.cache[path][method].has
  \/ Len(M.cache[path][method].args) # Len(args)
  \/ \E i \in 1..Len(args) : M.cache[path][method].args[i] # args[i]

\* A setCache that keeps the entry a method already has.
setCacheKeepsFirst(M, s, path, method, args, result) ==
  IF M.stores[s].readOnly \/ M.cache[path][method].has THEN M
  ELSE [M EXCEPT !.cache[path][method] = [has |-> TRUE, args |-> args, result |-> result]]

setCache(M, s, path, method, args, result) ==
  IF M.stores[s].readOnly THEN M
  ELSE [M EXCEPT !.cache[path][method] = [has |-> TRUE, args |-> args, result |-> result]]

\* A scope method of a clone left bound to the store it was created for.
ScopeMethodOfSource(M, s, path, method, args) ==
  IF isCacheInvalid(M, 1, path, method, args)
    THEN Bind(Body(M, 1, path, method, args), LAMBDA r :
           IF r.threw THEN Result(r.M, Undef, TRUE, 1)
           ELSE Result(setCache(r.M, 1, path, method, args, r.value), r.value, FALSE, 1))
    ELSE Result(M, M.cache[path][method].result, FALSE, 0)

\* The memoizing wrapper createScopeMethod puts around a template method.
ScopeMethod(M, s, path, method, args) ==
  IF isCacheInvalid(M, s, path, method, args)
    THEN Bind(Body(M, s, path, method, args), LAMBDA r :
           IF r.threw THEN Result(r.M, Undef, TRUE, 1)
           ELSE Result(setCache(r.M, s, path, method, args, r.value), r.value, FALSE, 1))
    ELSE Result(M, M.cache[path][method].result, FALSE, 0)

\* CLEAR_CACHES functions that leave the caches as they are.
ClearCachesNone(c) == c

\* CLEAR_CACHES: one function per scope, each resetting that scope's cache.
ClearCaches(c) == [p \in DOMAIN c |-> EmptyCache]

\* A hydrate that merges the given state into the current one.
hydrateMerge(M, s, value) ==
  Bind(Alloc(M.heap,
             [NewObject([key \in (DOMAIN Deref(M.heap, M.stores[s].state).props)
                                    \cup (DOMAIN Deref(M.heap, value).props) |->
                           IF key \in DOMAIN Deref(M.heap, value).props
                             THEN Deref(M.heap, value).props[key]
                             ELSE Deref(M.heap, M.stores[s].state).props[key]])
                EXCEPT !.frozen = TRUE]),
       LAMBDA c :
         Result(queueChangeEvent(
                  NoteWrite([M EXCEPT !.heap = c.heap,
                                      !.stores[s].state = c.ref,
                                      !.cache = [p \in DOMAIN @ |-> EmptyCache],
                                      !.nhyd = @ + 1], s, Star, M.stores[s].state),
                  s, Star),
                Undef, FALSE, 0))

\* store.hydrate(value)
hydrate(M, s, value) ==
  Bind(clone(M.heap, value), LAMBDA c :
    Bind(NoteWrite([M EXCEPT !.heap = Freeze(c.heap, c.ref),
                             !.stores[s].state = c.ref,
                             !.nhyd = @ + 1], s, Star, M.stores[s].state),
         LAMBDA M1 :
           IF ~M.stores[s].hasClearCaches
             THEN Result(M1, Undef, TRUE, 0)  \* clearFns is undefined
             ELSE Result(queueChangeEvent([M1 EXCEPT !.cache = ClearCaches(@)], s, Star),
                         Undef, FALSE, 0)))

\* Object.keys(info.eventQueue): integer-like keys first, in ascending
\* numeric order, then the other keys in insertion order.
IsIndexPath(path) == Len(path) = 1 /\ IsArrayIndex(path[1])
InQueue(queue, path) == \E i \in 1..Len(queue) : queue[i] = path
ObjectKeys(queue) ==
  LET IsQueuedIndex(key) == InQueue(queue, <<key>>)
      NotIndex(path)     == ~IsIndexPath(path)
      numeric            == SelectSeq(DigitKeys, IsQueuedIndex)
  IN [i \in 1..Len(numeric) |-> <<numeric[i]>>] \o SelectSeq(queue, NotIndex)

\* A flush callback that leaves info.promise set.
FlushCallbackKeepPromise(M, s) ==
  Bind(cloneStoreReadOnly([M EXCEPT !.stores[s].eventQueue = <<>>,
                                    !.stores[s].scheduled = @ - 1,
                                    !.stores[s].writes = <<>>], s),
       LAMBDA c :
         [c.M EXCEPT !.stores[s].previousStore = c.id,
                     !.log = Append(@, [Event("update", s, <<>>,
                                              ObjectKeys(M.stores[s].eventQueue),
                                              M.stores[s].previousStore,
                                              M.stores[s].writes)
                                          EXCEPT !.block = block + 1,
                                                 !.mode = "microtask"])])

\* A flush callback that does not renew info.previousStore.
FlushCallbackStaleSnapshot(M, s) ==
  [M EXCEPT !.stores[s].eventQueue = <<>>,
            !.stores[s].promise = FALSE,
            !.stores[s].scheduled = @ - 1,
            !.stores[s].writes = <<>>,
            !.log = Append(@, [Event("update", s, <<>>,
                                     ObjectKeys(M.stores[s].eventQueue),
                                     M.stores[s].previousStore,
                                     M.stores[s].writes)
                                 EXCEPT !.block = block + 1,
                                        !.mode = "microtask"])]

\* A flush callback that emits 'update' before it resets the batch: the
\* listeners run with the reported batch still pending.
FlushCallbackEmitFirst(M, s) ==
  Bind(cloneStoreReadOnly([M EXCEPT !.stores[s].scheduled = @ - 1,
                                    !.stores[s].writes = <<>>], s),
       LAMBDA c :
         [c.M EXCEPT !.stores[s].previousStore = c.id,
                     !.log = Append(@, [Event("update", s, <<>>,
                                              ObjectKeys(M.stores[s].eventQueue),
                                              M.stores[s].previousStore,
                                              M.stores[s].writes)
                                          EXCEPT !.block = block + 1,
                                                 !.mode = "microtask"])])

\* The callback queueChangeEvent schedules with Promise.resolve().then(...),
\* up to and including the emit of 'update'.
FlushCallback(M, s) ==
  Bind(cloneStoreReadOnly([M EXCEPT !.stores[s].eventQueue = <<>>,
                                    !.stores[s].promise = FALSE,
                                    !.stores[s].scheduled = @ - 1,
                                    !.stores[s].writes = <<>>], s),
       LAMBDA c :
         [c.M EXCEPT !.stores[s].previousStore = c.id,
                     !.log = Append(@, [Event("update", s, <<>>,
                                              ObjectKeys(M.stores[s].eventQueue),
                                              M.stores[s].previousStore,
                                              M.stores[s].writes)
                                          EXCEPT !.block = block + 1,
                                                 !.mode = "microtask"])])

\* A listener of 'update' throws: the exception leaves emit and the flush
\* callback, whose last statement is the emit, so nothing of the callback is
\* skipped; the promise returned by then() rejects and the store is untouched.
\* A throw whose unwinding leaves info.promise set, as it would be if the
\* callback reset the notifier after the emit.
ListenerThrowsBeforeReset(M, s) ==
  [M EXCEPT !.stores[s].promise = TRUE,
            !.log = Append(@, Event("throw", s, <<>>, <<>>, 0, <<>>))]

ListenerThrows(M, s) ==
  [M EXCEPT !.log = Append(@, Event("throw", s, <<>>, <<>>, 0, <<>>))]

\* ------------------------------------------------------------ construction
\* A template entry that is not a well-formed scope: a sub-template without
\* the `_` key ("nodefault"), or a value that is neither an object nor a
\* function, such as { todos: 5 } ("number").  A root template that is not an
\* object, as in createStore(5), is written NotAnObject.
NotAnObject == << Scope("", "primitive") >>
ContainerKinds == {"arr", "list", "obj"}

\* Nife.instanceOf(template, 'object')
InstanceOfObject(t) == t # NotAnObject

\* The template's array literals are on the heap before createStore runs.
\* (An object default is { key1: 1 }, an array default is [].)
ArraysUpTo(i) == Cardinality({j \in 1..i : template[j].kind \in ContainerKinds})
TemplateHeap ==
  [n \in 1..ArraysUpTo(Len(template)) |->
     IF template[CHOOSE j \in 1..Len(template) :
                   template[j].kind \in ContainerKinds /\ ArraysUpTo(j) = n].kind = "obj"
       THEN NewObject([key \in {"key1"} |-> Num(1)])
       ELSE NewArray(<<>>)]
DefaultOf(i) == IF template[i].kind = "num" THEN Num(0) ELSE Ref(ArraysUpTo(i))

\* What a constructor hands back: the machine, and the error it threw
\* ("none", "TypeError" or "Error").
Built(M, error) == [M |-> M, error |-> error]

\* createStoreSubsection that accepts every entry: one that is not a
\* sub-template is skipped, and a sub-template without `_` seeds nothing.
RECURSIVE createStoreSubsectionLenient(_, _)
createStoreSubsectionLenient(M, i) ==
  IF i > Len(template) THEN Built(M, "none")
  ELSE IF template[i].kind \in {"number", "nodefault"}
    THEN createStoreSubsectionLenient(M, i + 1)
  ELSE Bind(clone(M.heap, DefaultOf(i)), LAMBDA c :
         Bind(setState([M EXCEPT !.heap = c.heap], 1, <<template[i].name>>, c.ref), LAMBDA r :
           createStoreSubsectionLenient(r.M, i + 1)))

\* createStoreSubsection that seeds a scope with the template's default
\* itself instead of a clone of it.
RECURSIVE createStoreSubsectionNoClone(_, _)
createStoreSubsectionNoClone(M, i) ==
  IF i > Len(template) THEN Built(M, "none")
  ELSE IF template[i].kind = "number" THEN Built(M, "TypeError")
  ELSE IF template[i].kind = "nodefault" THEN Built(M, "Error")
  ELSE Bind(setState(M, 1, <<template[i].name>>, DefaultOf(i)), LAMBDA r :
         IF r.threw THEN Built(r.M, "TypeError")
         ELSE createStoreSubsectionNoClone(r.M, i + 1))

\* createStoreSubsection for the entries i.. of the template, in the order the
\* code visits them: an entry that is neither a sub-template nor a function
\* throws TypeError, a sub-template without `_` throws Error, and a scope
\* seeds its default with setState(clone(sectionTemplate._)).
RECURSIVE createStoreSubsection(_, _)
createStoreSubsection(M, i) ==
  IF i > Len(template) THEN Built(M, "none")
  ELSE IF template[i].kind = "number" THEN Built(M, "TypeError")
  ELSE IF template[i].kind = "nodefault" THEN Built(M, "Error")
  ELSE Bind(clone(M.heap, DefaultOf(i)), LAMBDA c :
         Bind(setState([M EXCEPT !.heap = c.heap], 1, <<template[i].name>>, c.ref), LAMBDA r :
           IF r.threw THEN Built(r.M, "TypeError")
           ELSE createStoreSubsection(r.M, i + 1)))

\* The machine createStore starts from: the heap and the stores given, and
\* nothing cached, logged or counted.
NewMachine(h, sts) ==
  [heap   |-> h,
   stores |-> sts,
   cache  |-> [p \in ScopePaths |-> EmptyCache],
   log    |-> <<>>,
   nsets  |-> [p \in ScopePaths |-> 0],
   nhyd   |-> 0]

\* createStore(template, options)
createStore ==
  IF ~InstanceOfObject(template)
    THEN Built(NewMachine(TemplateHeap, <<>>), "TypeError")
    ELSE Bind(Alloc(TemplateHeap, NewObject(NoProps)), LAMBDA a :
           Bind(createStoreSubsection(
                  NewMachine(a.heap,
                             << [Store(a.ref, FALSE) EXCEPT !.hasClearCaches = TRUE] >>), 1),
                LAMBDA b :
                  IF b.error # "none" THEN b
                  ELSE Built(initializeStore(b.M, 1), "none")))

\* earlier holds the arguments of the call before the last one, if any.
NoHist == [called |-> FALSE, count |-> 0, args |-> <<>>, value |-> Undef, nsets |-> 0,
           nhyd |-> 0, earlier |-> <<>>]
NoCall == [kind |-> "none", seq |-> 0, path |-> <<>>, method |-> "", args |-> <<>>,
           value |-> Undef, threw |-> FALSE, ran |-> 0, prev |-> NoHist,
           setSince |-> FALSE, hydSince |-> FALSE, input |-> Undef, was |-> Undef,
           store |-> 0, error |-> "none"]

Install(M) ==
  /\ heap = M.heap
  /\ stores = M.stores
  /\ cache = M.cache
  /\ log = M.log
  /\ nsets = M.nsets
  /\ nhyd = M.nhyd

\* The machine a call leaves behind becomes the next state.
InstallNext(M) ==
  /\ heap' = M.heap
  /\ stores' = M.stores
  /\ cache' = M.cache
  /\ log' = M.log
  /\ nsets' = M.nsets
  /\ nhyd' = M.nhyd

\* store = createStore(t, { emitOnFetch: e })
InitOptions(t, e) ==
  /\ template = t
  /\ emitOnFetch = e
  /\ mode = "caller"
  /\ block = 0
  /\ ops = 0
  /\ customs = 0
  /\ \E b \in {createStore} :
       \* a createStore that throws returns no store
       /\ Install(IF b.error = "none" THEN b.M ELSE [b.M EXCEPT !.stores = <<>>])
       /\ lastCall = IF b.error = "none" THEN NoCall
                     ELSE [NoCall EXCEPT !.kind = "createStore", !.threw = TRUE,
                                         !.error = b.error]
  /\ hist = [p \in ScopePaths |-> [m \in Methods |-> NoHist]]

\* store = createStore(t): options.emitOnFetch is undefined.
InitWith(t) == InitOptions(t, FALSE)

Init == InitWith(TodoTemplate)
\* The todo template, created with or without { emitOnFetch: true }.
InitFetch == \E e \in BOOLEAN : InitOptions(TodoTemplate, e)
\* The templates a caller gives createStore: well-formed ones, and ones with
\* a root that is not an object, an entry that is a number, or a sub-template
\* (at the top or nested) without a default.
CreateTemplates ==
  { TodoTemplate,
    <<>>,
    NotAnObject,
    << Scope("counter", "num"), Scope("todos", "number") >>,
    << Scope("counter", "nodefault"), Scope("todos", "arr") >>,
    << Scope("items", "list"), Scope("items.subItems", "nodefault") >>,
    << Scope("items", "list"), Scope("items.subItems", "number") >>,
    << Scope("counter", "number"), Scope("todos", "nodefault") >>,
    << Scope("counter", "nodefault"), Scope("todos", "number") >> }
InitCreate == \E t \in CreateTemplates : InitWith(t)
InitIndexed == InitWith(IndexedTemplate)
InitComplex == InitWith(ComplexTemplate)

\* The arguments of a call with the caller's object literals created.
RECURSIVE Materialize(_, _)
Materialize(h, args) ==
  IF args = <<>> THEN [heap |-> h, args |-> <<>>]
  ELSE IF Head(args).k = "literal"
    THEN Bind(Alloc(h, NewObject([key \in {"id"} |-> Num(Head(args).n)])), LAMBDA a :
           Bind(Materialize(a.heap, Tail(args)), LAMBDA rest :
             [heap |-> rest.heap, args |-> <<a.ref>> \o rest.args]))
  ELSE IF Head(args).k = "arrliteral"
    THEN Bind(Alloc(h, NewArray(<<Num(Head(args).n)>>)), LAMBDA a :
           Bind(Materialize(a.heap, Tail(args)), LAMBDA rest :
             [heap |-> rest.heap, args |-> <<a.ref>> \o rest.args]))
    ELSE Bind(Materialize(h, Tail(args)), LAMBDA rest :
           [heap |-> rest.heap, args |-> <<Head(args)>> \o rest.args])

\* ----------------------------------------------------------------- actions
\* The caller (or an 'update' listener) calls store.<scope>.<method>(...args).
Call(path, method, given) ==
  /\ stores # <<>>   \* createStore returned a store
  /\ ops < MaxOps
  /\ \E a \in {Materialize(heap, given)} :
     \E args \in {a.args} :
     \E r \in {ScopeMethod([Machine EXCEPT !.heap = a.heap], 1, path, method, args)} :
       /\ InstallNext(r.M)
       /\ hist' = IF r.threw THEN hist
                  ELSE [hist EXCEPT ![path][method] =
                          [called |-> TRUE, count |-> @.count + 1, args |-> args,
                           value |-> r.value,
                           nsets |-> r.M.nsets[path], nhyd |-> r.M.nhyd,
                           earlier |-> IF @.called THEN <<@.args>> ELSE <<>>]]
       /\ lastCall' = [kind |-> "call", seq |-> ops + 1, path |-> path, method |-> method,
                       args |-> args, value |-> r.value, threw |-> r.threw, ran |-> r.ran,
                       prev |-> hist[path][method],
                       setSince |-> nsets[path] > hist[path][method].nsets,
                       hydSince |-> nhyd > hist[path][method].nhyd,
                       input |-> Undef,
                       was |-> NifeGet(heap, stores[1].state, path),
                       store |-> 1, error |-> "none"]
  /\ ops' = ops + 1
  /\ UNCHANGED <<template, mode, block, customs, emitOnFetch>>

\* The states a caller passes to hydrate: every scope present, or only the
\* number-valued scopes.  The caller builds the object before the call.
HydrateShapes == {"full", "numbers"}

HydrateInput(h, shape) ==
  LET present == {i \in 1..Len(template) : shape = "full" \/ template[i].kind = "num"}
      arrs    == {i \in present : template[i].kind = "arr"}
      slot(i) == Len(h) + Cardinality({j \in arrs : j <= i})
      withArr == h \o [n \in 1..Cardinality(arrs) |-> NewArray(<<Num(2)>>)]
      props   == [key \in {template[i].name : i \in present} |->
                    LET i == CHOOSE j \in present : template[j].name = key IN
                    IF template[i].kind = "num"
                      THEN Num(IF shape = "full" THEN 2 ELSE 1)
                      ELSE Ref(slot(i))]
  IN Alloc(withArr, NewObject(props))

Hydrate(shape) ==
  /\ stores # <<>>
  /\ ops < MaxOps
  /\ \E in \in {HydrateInput(heap, shape)} :
       \E r \in {hydrate([Machine EXCEPT !.heap = in.heap], 1, in.ref)} :
         /\ InstallNext(r.M)
         /\ lastCall' = [NoCall EXCEPT !.kind = "hydrate", !.seq = ops + 1,
                                       !.threw = r.threw, !.input = in.ref,
                                       !.store = 1]
  /\ ops' = ops + 1
  /\ UNCHANGED <<template, mode, block, customs, emitOnFetch, hist>>

\* The clones the caller made with cloneStore.
UserClones == {s \in 1..Len(stores) : stores[s].user}

\* The caller clones the store: clone = cloneStore(store, readyOnly).
Clone(readOnly) ==
  /\ Cardinality(UserClones) < MaxClones
  /\ \E c \in {cloneStore(Machine, 1, readOnly)} :
       InstallNext([c.M EXCEPT !.stores[c.id].user = TRUE,
                               !.stores[c.id].origin = stores[1].state])
  /\ UNCHANGED <<template, mode, block, ops, customs, emitOnFetch, hist, lastCall>>

\* The caller (or an 'update' listener) calls clone.<scope>.<method>(...args).
CallClone(s, path, method, args) ==
  /\ ops < MaxOps
  /\ \E r \in {ScopeMethod(Machine, s, path, method, args)} :
       /\ InstallNext(r.M)
       /\ lastCall' = [NoCall EXCEPT !.kind = "call", !.seq = ops + 1, !.path = path,
                                     !.method = method, !.args = args,
                                     !.value = r.value, !.threw = r.threw, !.ran = r.ran,
                                     !.was = NifeGet(heap, stores[s].state, path),
                                     !.store = s]
  /\ ops' = ops + 1
  /\ UNCHANGED <<template, mode, block, customs, emitOnFetch, hist>>

\* clone.hydrate(value), on a writable clone.
HydrateClone(s, shape) ==
  /\ ops < MaxOps
  /\ ~stores[s].readOnly
  /\ \E in \in {HydrateInput(heap, shape)} :
       \E r \in {hydrate([Machine EXCEPT !.heap = in.heap], s, in.ref)} :
         /\ InstallNext(r.M)
         /\ lastCall' = [NoCall EXCEPT !.kind = "hydrate", !.seq = ops + 1,
                                       !.threw = r.threw, !.input = in.ref,
                                       !.store = s]
  /\ ops' = ops + 1
  /\ UNCHANGED <<template, mode, block, customs, emitOnFetch, hist>>

\* The previousStore of the 'update' being delivered.
Delivered == log[Len(log)].previousStore

\* A listener of 'update' calls previousStore.<scope>.<method>(...args) on the
\* snapshot it was handed.
CallPrevious(path, method, given) ==
  /\ mode = "handler"
  /\ ops < MaxOps
  /\ \E a \in {Materialize(heap, given)} :
     \E r \in {ScopeMethod([Machine EXCEPT !.heap = a.heap], Delivered, path, method,
                           a.args)} :
       /\ InstallNext(r.M)
       /\ lastCall' = [NoCall EXCEPT !.kind = "call", !.seq = ops + 1, !.path = path,
                                     !.method = method, !.args = a.args,
                                     !.value = r.value, !.threw = r.threw, !.ran = r.ran,
                                     !.was = NifeGet(heap, stores[Delivered].state, path),
                                     !.store = Delivered]
  /\ ops' = ops + 1
  /\ UNCHANGED <<template, mode, block, customs, emitOnFetch, hist>>

\* After a write, in the same synchronous block, the caller emits a custom
\* event with store.emit: it is delivered to its listeners synchronously.
EmitCustom ==
  /\ customs < MaxCustom
  /\ \E i \in 1..Len(stores[1].writes) : stores[1].writes[i].block = block
  /\ log' = Append(log, Event("custom", 1, <<>>, <<>>, 0, <<>>))
  /\ customs' = customs + 1
  /\ UNCHANGED <<template, heap, stores, cache, nsets, nhyd, mode, block, ops,
                 emitOnFetch, hist, lastCall>>

\* The synchronous code returns; the scheduled flush runs as a microtask and
\* emits 'update', and the listeners start to run.
Flush(s) ==
  /\ mode = "caller"
  /\ stores[s].scheduled > 0
  /\ \E M \in {FlushCallback(Machine, s)} : InstallNext(M)
  /\ mode' = "handler"
  /\ block' = block + 1
  /\ UNCHANGED <<template, ops, customs, emitOnFetch, hist, lastCall>>

\* The 'update' listeners return; what runs next is a new block.
HandlerReturn ==
  /\ mode = "handler"
  /\ mode' = "caller"
  /\ block' = block + 1
  /\ UNCHANGED <<template, heap, stores, cache, log, nsets, nhyd, ops, customs,
                 emitOnFetch, hist, lastCall>>

\* The store whose 'update' is being delivered, and the throws so far.
Notifying ==
  LET emits == {i \in 1..Len(log) : log[i].ev = "update"}
  IN log[CHOOSE i \in emits : \A j \in emits : j <= i].store
Throws == {i \in 1..Len(log) : log[i].ev = "throw"}

\* A listener of 'update' throws instead of returning; what runs next is a
\* new block.
HandlerThrows ==
  /\ mode = "handler"
  /\ \E M \in {ListenerThrows(Machine, Notifying)} : InstallNext(M)
  /\ mode' = "caller"
  /\ block' = block + 1
  /\ UNCHANGED <<template, ops, customs, emitOnFetch, hist, lastCall>>

Next ==
  \/ \E path \in ScopePaths : \E method \in MethodsOf(KindOf(path)) :
       \E args \in ArgsOf(method) : Call(path, method, args)
  \/ \E shape \in HydrateShapes : Hydrate(shape)
  \/ \E s \in 1..Len(stores) : Flush(s)
  \/ HandlerReturn

NextCustom == Next \/ EmitCustom

NextComplex ==
  \/ \E path \in ScopePaths : \E method \in MethodsOf(KindOf(path)) :
       \E args \in ArgsOf(method) : Call(path, method, args)
  \/ \E s \in 1..Len(stores) : Flush(s)
  \/ HandlerReturn

\* The nested store with a caller that also puts arrays in the list, and a
\* template whose list scope has the method first.
NextAlias ==
  \/ NextComplex
  \/ Call(<<"items">>, "put", <<ArrayLiteral(1)>>)
  \/ Call(<<"items">>, "first", <<>>)

\* The same, with listeners that call the methods of the previousStore.
NextSnapshot ==
  \/ NextAlias
  \/ \E path \in ScopePaths : \E method \in MethodsOf(KindOf(path)) :
       \E args \in ArgsOf(method) : CallPrevious(path, method, args)

\* The todo store with listeners of 'update' that may throw.
NextThrow == Next \/ HandlerThrows

NextClone ==
  \/ Next
  \/ \E readOnly \in BOOLEAN : Clone(readOnly)
  \/ \E s \in UserClones : \E path \in ScopePaths :
       \E method \in MethodsOf(KindOf(path)) : \E args \in ArgsOf(method) :
         CallClone(s, path, method, args)
  \/ \E s \in UserClones : \E shape \in HydrateShapes : HydrateClone(s, shape)

\* The store of the todo template.
Spec == Init /\ [][Next]_vars
\* The same store under the scheduling of the JavaScript event loop: once the
\* synchronous code has returned the microtask queue is drained, so a scheduled
\* flush callback runs, and the listeners of 'update' return.
FairSpec ==
  /\ Spec
  /\ WF_vars(\E s \in 1..Len(stores) : Flush(s))
  /\ WF_vars(HandlerReturn)
\* The todo store with listeners that may throw, under the same scheduling: a
\* delivery ends with the listeners returning or with one of them throwing.
FairSpecThrow ==
  /\ Init /\ [][NextThrow]_vars
  /\ WF_vars(\E s \in 1..Len(stores) : Flush(s))
  /\ WF_vars(HandlerReturn \/ HandlerThrows)
\* The same store, with a caller that also emits custom events.
SpecCustom == Init /\ [][NextCustom]_vars
\* A store whose scopes have integer-like names.
SpecIndexed == InitIndexed /\ [][Next]_vars
\* A store with nested scopes, object defaults and object items.
SpecComplex == InitComplex /\ [][NextComplex]_vars
\* The nested store, set to values that are part of its own state.
SpecAlias == InitComplex /\ [][NextAlias]_vars
\* The nested store and the snapshots its 'update' events deliver.
SpecSnapshot == InitComplex /\ [][NextSnapshot]_vars
\* The store of the todo template and the clones the caller makes of it.
SpecClone == Init /\ [][NextClone]_vars
\* createStore on well-formed and on malformed templates, and what the caller
\* does with the store when there is one.
SpecCreate == InitCreate /\ [][Next]_vars
\* The store of the todo template, for either value of options.emitOnFetch.
SpecFetch == InitFetch /\ [][Next]_vars

\* ------------------------------------------------------------- properties
\* The positions of the 'update' emissions in the log.
Updates == {i \in 1..Len(log) : log[i].ev = "update"}
CountIn(seq, x) == Cardinality({i \in 1..Len(seq) : seq[i] = x})
WritesOf(i) == log[i].writes
\* The paths of a sequence of writes, each once, in the order of its first write.
FirstWriteOrder(writes) ==
  LET firsts == {k \in 1..Len(writes) :
                   \A j \in 1..(k - 1) : writes[j].path # writes[k].path}
  IN [n \in 1..Cardinality(firsts) |->
        writes[CHOOSE k \in firsts : Cardinality({j \in firsts : j <= k}) = n].path]

\* C1: the state-changing writes made before the flush runs schedule exactly
\* one flush, and the 'update' it emits reports at least one write and lists
\* each written path exactly once, however often it was written.
OneUpdatePerBatch ==
  /\ \A s \in 1..Len(stores) :
       stores[s].scheduled = (IF stores[s].writes # <<>> THEN 1 ELSE 0)
  /\ \A i \in Updates :
       /\ WritesOf(i) # <<>>
       /\ \A k \in 1..Len(WritesOf(i)) : CountIn(log[i].modified, WritesOf(i)[k].path) = 1

\* C1 witness: an 'update' that reports two writes of the same scope made in
\* the same synchronous block.
SameScopeBatchFlushed ==
  \E i \in Updates : \E a, b \in 1..Len(WritesOf(i)) :
    /\ a < b
    /\ WritesOf(i)[a].path = WritesOf(i)[b].path
    /\ WritesOf(i)[a].path # Star
    /\ WritesOf(i)[a].block = WritesOf(i)[b].block

\* C2: every write reported by an 'update' was made in a block before that
\* emission (so a write made while an 'update' is being delivered is not in
\* the emission being delivered) and its path is in that emission's modified;
\* every write not yet reported is queued and a flush is scheduled for it.
HandlerWriteGetsOwnUpdate ==
  /\ \A i \in Updates : \A k \in 1..Len(WritesOf(i)) :
       /\ WritesOf(i)[k].block < log[i].block
       /\ InQueue(log[i].modified, WritesOf(i)[k].path)
  /\ \A s \in 1..Len(stores) : \A k \in 1..Len(stores[s].writes) :
       /\ InQueue(stores[s].eventQueue, stores[s].writes[k].path)
       /\ stores[s].scheduled > 0

\* C2 witness: an 'update' that reports a write made by a listener of an
\* earlier 'update', during its delivery.
HandlerWriteFlushed ==
  \E i, j \in Updates : \E k \in 1..Len(WritesOf(i)) :
    /\ j < i
    /\ WritesOf(i)[k].mode = "handler"
    /\ WritesOf(i)[k].block = log[j].block
    /\ ~InQueue(log[j].modified, WritesOf(i)[k].path)

\* C3: when the only calls so far are n synchronous calls of counter.inc(),
\* the counter is n.
IncCountsEveryCall ==
  (template = TodoTemplate /\ block = 0 /\ nhyd = 0
     /\ hist[<<"counter">>]["inc"].count = ops)
    => NifeGet(heap, stores[1].state, <<"counter">>) = Num(ops)

ChangedCallReExecutes ==
  (lastCall.kind = "call" /\ lastCall.prev.called
     /\ (lastCall.prev.args # lastCall.args \/ lastCall.setSince))
    => lastCall.ran = 1

\* C5 witness: a call that ran the body because one argument differs from the
\* cached one, the lists having the same length and the state being unchanged.
ArgumentChangeReExecuted ==
  /\ lastCall.kind = "call"
  /\ lastCall.prev.called
  /\ Len(lastCall.prev.args) = Len(lastCall.args)
  /\ lastCall.prev.args # lastCall.args
  /\ ~lastCall.setSince
  /\ ~lastCall.hydSince
  /\ lastCall.ran = 1

\* C6: the modified list of an 'update' is the written paths, each once, in
\* the order of their first write.
ModifiedInFirstWriteOrder ==
  \A i \in Updates : log[i].modified = FirstWriteOrder(WritesOf(i))

\* C7: an 'update' is emitted only by the scheduled callback, in a block after
\* the blocks of the writes it reports; everything observed before it belongs
\* to earlier blocks and nothing observed after it does, so what the writer
\* emits synchronously after the write precedes the 'update', and an 'update'
\* is never delivered inside the delivery of another.
UpdateNeverSynchronous ==
  \A i \in Updates :
    /\ log[i].mode = "microtask"
    /\ \A k \in 1..Len(WritesOf(i)) : WritesOf(i)[k].block < log[i].block
    /\ \A j \in 1..Len(log) :
         /\ j < i => log[j].block < log[i].block
         /\ j > i => log[j].block >= log[i].block

\* C7 witness: a listener of an 'update' wrote a scope and then emitted a
\* custom event; the custom event was observed before the 'update' that
\* reports the write.
CustomEventBeforeUpdate ==
  \E i \in Updates : \E j \in 1..Len(log) : \E k \in 1..Len(WritesOf(i)) :
    /\ j < i
    /\ log[j].ev = "custom"
    /\ log[j].mode = "handler"
    /\ WritesOf(i)[k].block = log[j].block

\* C8: after hydrate(S) the state is deep-equal to S, and an 'update' that
\* reports nothing but hydrates has modified equal to ['*'].
HydrateReplacesState ==
  /\ lastCall.kind = "hydrate" =>
       (~lastCall.threw /\ DeepEqual(heap, stores[1].state, lastCall.input))
  /\ \A i \in Updates :
       (\A k \in 1..Len(WritesOf(i)) : WritesOf(i)[k].path = Star)
         => log[i].modified = <<Star>>

\* C8 witness: a hydrate with a state that has no todos removed the todos the
\* store had, and its 'update' was emitted with modified ['*'].
HydrateDroppedScope ==
  /\ lastCall.kind = "hydrate"
  /\ NifeGet(heap, stores[1].state, <<"todos">>) = Undef
  /\ NifeGet(heap, stores[1].state, <<"counter">>) = Num(1)
  /\ log # <<>>
  /\ log[Len(log)].ev = "update"
  /\ log[Len(log)].modified = <<Star>>

\* C9: after a hydrate no scope has a cached result, and a call that follows
\* a hydrate runs the body; a getter then returns the hydrated state.
HydrateClearsEveryCache ==
  /\ lastCall.kind = "hydrate" =>
       \A p \in ScopePaths : \A m \in Methods : ~cache[p][m].has
  /\ (lastCall.kind = "call" /\ lastCall.prev.called /\ lastCall.hydSince) =>
       /\ lastCall.ran = 1
       /\ lastCall.method = "get" =>
            lastCall.value = NifeGet(heap, stores[1].state, lastCall.path)

\* C9 witness: a getter called with the arguments of a call cached before a
\* hydrate, with no set in between, ran again and returned another value.
GetterReRunAfterHydrate ==
  /\ lastCall.kind = "call"
  /\ lastCall.method = "get"
  /\ lastCall.prev.called
  /\ lastCall.prev.args = lastCall.args
  /\ lastCall.hydSince
  /\ ~lastCall.setSince
  /\ lastCall.ran = 1
  /\ lastCall.value # lastCall.prev.value

\* C10: a call that runs set(get()) while the scope holds an array throws, and
\* leaves the heap, every store (state, queue, scheduled flush), the caches
\* and the log as they were.
SameReferenceSetThrows ==
  [][(/\ lastCall'.seq # lastCall.seq
      /\ lastCall'.kind = "call"
      /\ lastCall'.method = "touch"
      /\ lastCall'.ran = 1
      /\ IsRef(NifeGet(heap, stores[1].state, lastCall'.path)))
       => (/\ lastCall'.threw
           /\ heap' = heap
           /\ stores' = stores
           /\ cache' = cache
           /\ log' = log)]_vars

\* C10 witness: set(get()) threw while a write was pending and a result was
\* cached on the scope.
SameReferenceSetRejected ==
  /\ lastCall.kind = "call"
  /\ lastCall.method = "touch"
  /\ lastCall.threw
  /\ IsRef(lastCall.was)
  /\ stores[1].writes # <<>>
  /\ cache[lastCall.path]["get"].has

\* C11: a call that runs set with a number equal to the stored one, or with a
\* fresh copy of the stored array, does not throw and leaves every store
\* (state, queue, scheduled flush), the other cached results of every scope
\* and the log as they were.
UnchangedSetIsNoOp ==
  [][(/\ lastCall'.seq # lastCall.seq
      /\ lastCall'.kind = "call"
      /\ lastCall'.ran = 1
      /\ \/ /\ lastCall'.method = "set"
            /\ lastCall'.args[1] = NifeGet(heap, stores[1].state, lastCall'.path)
         \/ /\ lastCall'.method = "copy"
            /\ IsRef(NifeGet(heap, stores[1].state, lastCall'.path)))
       => (/\ ~lastCall'.threw
           /\ stores' = stores
           /\ log' = log
           /\ \A p \in ScopePaths : \A m \in Methods :
                (p # lastCall'.path \/ m # lastCall'.method) => cache'[p][m] = cache[p][m])]_vars

\* C11 witness: set([...get()]) on a non-empty list returned without a write:
\* the list is the one stored before, no write is pending, no flush is
\* scheduled and the result cached for get is still there.
DeepEqualSetIgnored ==
  /\ lastCall.kind = "call"
  /\ lastCall.method = "copy"
  /\ lastCall.ran = 1
  /\ ~lastCall.threw
  /\ IsRef(lastCall.was)
  /\ Deref(heap, lastCall.was).items # <<>>
  /\ NifeGet(heap, stores[1].state, lastCall.path) = lastCall.was
  /\ stores[1].writes = <<>>
  /\ stores[1].scheduled = 0
  /\ cache[lastCall.path]["get"].has

\* C18: right after a call that ran set(v) and changed the state, the state
\* holds v at the scope's path; a get inside a method body reads the value
\* stored by the writes made so far (inc returns the stored number plus one and
\* stores it), and a getter that ran returns what the state holds.
WriteVisibleImmediately ==
  /\ (lastCall.kind = "call" /\ lastCall.method = "set" /\ lastCall.ran = 1
        /\ lastCall.args[1] # lastCall.was)
       => NifeGet(heap, stores[1].state, lastCall.path) = lastCall.args[1]
  /\ (lastCall.kind = "call" /\ lastCall.method = "inc" /\ lastCall.ran = 1
        /\ lastCall.was.k = "num")
       => /\ lastCall.value = Num(lastCall.was.n + 1)
          /\ NifeGet(heap, stores[1].state, lastCall.path) = lastCall.value
  /\ (lastCall.kind = "call" /\ lastCall.method = "get" /\ lastCall.ran = 1)
       => lastCall.value = NifeGet(heap, stores[1].state, lastCall.path)

\* C18 witness: inc() right after a set in the same synchronous block, before
\* any 'update': it read the value just written and stored the next one.
IncSawPendingWrite ==
  /\ lastCall.kind = "call"
  /\ lastCall.method = "inc"
  /\ lastCall.ran = 1
  /\ lastCall.was = Num(1)
  /\ lastCall.value = Num(2)
  /\ NifeGet(heap, stores[1].state, lastCall.path) = Num(2)
  /\ Len(stores[1].writes) = 2
  /\ stores[1].writes[1].block = stores[1].writes[2].block
  /\ log = <<>>

\* C19: an 'update' that reports a hydrate has modified equal to ['*'],
\* whatever else was written before the flush.
HydrateSentinelAlone ==
  \A i \in Updates :
    (\E k \in 1..Len(WritesOf(i)) : WritesOf(i)[k].path = Star)
      => log[i].modified = <<Star>>

\* C20: after hydrate(S) no container of the installed state is a container
\* of S: neither the root nor the value of any scope.
HydrateSharesNothing ==
  lastCall.kind = "hydrate" =>
    /\ stores[1].state # lastCall.input
    /\ \A p \in ScopePaths :
         IsRef(NifeGet(heap, lastCall.input, p))
           => NifeGet(heap, stores[1].state, p) # NifeGet(heap, lastCall.input, p)

\* C15: the previousStore of every 'update' is a read-only store, other than
\* the emitting store, whose state is deep-equal to the emitting store's state
\* before the first write the 'update' reports; and when the 'update' is
\* delivered the emitting store holds the state the last reported write left.
PreviousStoreIsPreBatchState ==
  /\ \A i \in Updates :
       /\ log[i].previousStore \in 1..Len(stores)
       /\ log[i].previousStore # log[i].store
       /\ stores[log[i].previousStore].readOnly
       /\ DeepEqual(heap, stores[log[i].previousStore].state, WritesOf(i)[1].from)
  /\ (mode = "handler" /\ stores[log[Len(log)].store].writes = <<>>)
       => stores[log[Len(log)].store].state
            = WritesOf(Len(log))[Len(WritesOf(Len(log)))].to

\* C15 witness: an 'update' for writes made by a listener of an earlier
\* 'update': its previousStore holds the state the earlier batch left, which
\* is neither the state after construction nor the current state.
SecondBatchSnapshot ==
  \E i, j \in Updates :
    /\ j < i
    /\ WritesOf(i)[1].mode = "handler"
    /\ WritesOf(i)[1].from = WritesOf(j)[Len(WritesOf(j))].to
    /\ DeepEqual(heap, stores[log[i].previousStore].state, WritesOf(i)[1].from)
    /\ ~DeepEqual(heap, stores[log[i].previousStore].state, stores[log[j].previousStore].state)
    /\ ~DeepEqual(heap, stores[log[i].previousStore].state, stores[log[i].store].state)

\* A value with everything reachable from it, addresses left out.
RECURSIVE Tree(_, _)
Tree(h, v) ==
  IF ~IsRef(v) THEN v
  ELSE [arr    |-> h[v.n].arr,
        frozen |-> h[v.n].frozen,
        items  |-> [i \in 1..Len(h[v.n].items) |-> Tree(h, h[v.n].items[i])],
        props  |-> [key \in DOMAIN h[v.n].props |-> Tree(h, h[v.n].props[key])]]

GetterReadsOwnStore ==
  (lastCall.kind = "call" /\ lastCall.method = "get" /\ ~lastCall.threw)
    => lastCall.value = NifeGet(heap, stores[lastCall.store].state, lastCall.path)

\* C14: a method call on a read-only clone changes no store, no cache and
\* nothing in the log, and throws only when the body itself does (spreading a
\* missing list); a read-only clone holds a state deep-equal to the source's
\* state at clone time, has no queued path and no scheduled flush, and no
\* 'update' was emitted by it.
ReadOnlyCloneIgnoresSet ==
  /\ \A c \in UserClones :
       stores[c].readOnly =>
         /\ DeepEqual(heap, stores[c].state, stores[c].origin)
         /\ stores[c].eventQueue = <<>>
         /\ stores[c].scheduled = 0
         /\ \A i \in Updates : log[i].store # c
  /\ (lastCall.kind = "call" /\ lastCall.store \in UserClones
        /\ stores[lastCall.store].readOnly)
       => /\ lastCall.ran = 1
          /\ lastCall.threw => (lastCall.method \in {"add", "copy"} /\ ~IsRef(lastCall.was))
          /\ NifeGet(heap, stores[lastCall.store].state, lastCall.path) = lastCall.was

\* C14 witness: set(1) on a read-only clone whose counter is 0 returned
\* without throwing and the counter is still 0, while the source has moved on.
ReadOnlySetIgnored ==
  /\ lastCall.kind = "call"
  /\ lastCall.store \in UserClones
  /\ stores[lastCall.store].readOnly
  /\ lastCall.method = "set"
  /\ lastCall.args = <<Num(1)>>
  /\ lastCall.was = Num(0)
  /\ ~lastCall.threw
  /\ NifeGet(heap, stores[lastCall.store].state, lastCall.path) = Num(0)
  /\ ~DeepEqual(heap, stores[1].state, stores[lastCall.store].state)

\* The keys of a container: its property names and the indices of its elements.
KeysOf(h, v) ==
  (DOMAIN h[v.n].props) \cup {DigitKeys[i] : i \in 1..Len(h[v.n].items)}

\* Along the keys of a path, every value held by the old containers under
\* another key is held by the new containers under that key: the same
\* reference, with the same content.
RECURSIVE SiblingsShared(_, _, _, _, _)
SiblingsShared(h0, old, h1, new, parts) ==
  IF parts = <<>> \/ ~IsRef(old) THEN TRUE
  ELSE /\ IsRef(new)
       /\ \A key \in KeysOf(h0, old) \ {Head(parts)} :
            /\ GetProp(h1, new, key) = GetProp(h0, old, key)
            /\ Tree(h1, GetProp(h1, new, key)) = Tree(h0, GetProp(h0, old, key))
       /\ SiblingsShared(h0, GetProp(h0, old, Head(parts)),
                         h1, GetProp(h1, new, Head(parts)), Tail(parts))

\* A step in which a method call wrote its scope.
ScopeWritten ==
  /\ lastCall'.seq # lastCall.seq
  /\ lastCall'.kind = "call"
  /\ nsets'[lastCall'.path] # nsets[lastCall'.path]

\* C16: a call that writes a scope leaves, in the new state tree, every sibling
\* of the scope's path and of its ancestors as it was in the old one: the same
\* reference, with the same content.
SetSharesSiblings ==
  [][ScopeWritten =>
       SiblingsShared(heap, stores[1].state, heap', stores'[1].state,
                      Split(lastCall'.path))]_vars

\* C16 witness: values.subValues was written while items held an item; the
\* new root holds the items list of the old root, and another values object.
NestedWriteSharedItems ==
  /\ lastCall.kind = "call"
  /\ lastCall.path = <<"values.subValues">>
  /\ lastCall.method = "update"
  /\ stores[1].writes # <<>>
  /\ LET w == stores[1].writes[Len(stores[1].writes)]
     IN /\ w.path = lastCall.path
        /\ w.to = stores[1].state
        /\ w.from # w.to
        /\ IsRef(GetProp(heap, w.to, "items"))
        /\ Deref(heap, GetProp(heap, w.to, "items")).items # <<>>
        /\ GetProp(heap, w.to, "items") = GetProp(heap, w.from, "items")
        /\ GetProp(heap, w.to, "values") # GetProp(heap, w.from, "values")

RootAlwaysFrozen ==
  \A s \in 1..Len(stores) :
    IsRef(stores[s].state) /\ Deref(heap, stores[s].state).frozen

\* A step that is a call of a scope method on the store.
MethodCalled ==
  /\ lastCall'.seq # lastCall.seq
  /\ lastCall'.kind = "call"

\* The methods of the template whose body calls get().
CallsGet == {"get", "inc", "add", "touch", "copy", "put", "update"}

Malformed == {i \in 1..Len(template) : template[i].kind \in {"number", "nodefault"}}

\* C23: createStore throws and returns no store when the root template is
\* not an object (TypeError), when an entry is neither a sub-template nor a
\* function (TypeError), and when a sub-template has no `_` (an Error); of
\* several malformed entries the first one visited decides the error.
CreateStoreRejectsMalformed ==
  /\ ~InstanceOfObject(template) =>
       /\ stores = <<>>
       /\ lastCall.kind = "createStore" /\ lastCall.threw
       /\ lastCall.error = "TypeError"
  /\ (InstanceOfObject(template) /\ Malformed # {}) =>
       /\ stores = <<>>
       /\ lastCall.kind = "createStore" /\ lastCall.threw
       /\ lastCall.error =
            (IF template[CHOOSE i \in Malformed : \A j \in Malformed : i <= j].kind = "number"
               THEN "TypeError" ELSE "Error")

\* C23 witness: createStore({ items: { _: [], subItems: { ... } } }), whose
\* nested sub-template has no `_`, threw an Error and returned no store.
NestedScopeWithoutDefaultRejected ==
  /\ template = << Scope("items", "list"), Scope("items.subItems", "nodefault") >>
  /\ stores = <<>>
  /\ lastCall.kind = "createStore"
  /\ lastCall.error = "Error"

\* A step that emits 'update': the flush callback of store s ran.
UpdateEmitted(s) ==
  /\ Len(log') = Len(log) + 1
  /\ log'[Len(log')].ev = "update"
  /\ log'[Len(log')].store = s

\* The paths a write of the todo store can report.
TodoPaths == {<<TodoTemplate[i].name>> : i \in 1..Len(TodoTemplate)} \cup {Star}

\* A write of path p has been made and no 'update' has reported it yet.
Pending(p) == \E k \in 1..Len(stores[1].writes) : stores[1].writes[k].path = p

\* C24: every state-changing set and every hydrate is eventually reported.
\* A write stops being pending only in the step that emits an 'update'
\* carrying it; every 'update' lists in modified the path of each write it
\* carries ('*' for a hydrate); and, once the microtask queue runs, a
\* pending write of any path does stop being pending.
EveryWriteReported ==
  /\ [][(stores[1].writes # <<>> /\ stores'[1].writes # stores[1].writes) =>
          \/ /\ Len(stores'[1].writes) = Len(stores[1].writes) + 1
             /\ SubSeq(stores'[1].writes, 1, Len(stores[1].writes)) = stores[1].writes
          \/ /\ stores'[1].writes = <<>>
             /\ UpdateEmitted(1)
             /\ log'[Len(log')].writes = stores[1].writes]_vars
  /\ [](\A i \in Updates : \A k \in 1..Len(WritesOf(i)) :
          InQueue(log[i].modified, WritesOf(i)[k].path))
  /\ \A p \in TodoPaths : Pending(p) ~> (stores[1].writes = <<>>)

\* C24 witness: a write made by a listener during the delivery of the first
\* 'update' has been reported by the second one, after a hydrate and a set
\* were reported by the first.
HandlerWriteReported ==
  /\ Cardinality(Updates) = 2
  /\ \E i, j \in Updates :
       /\ i < j
       /\ \E k \in 1..Len(WritesOf(i)) : WritesOf(i)[k].path = Star
       /\ \E k \in 1..Len(WritesOf(i)) : WritesOf(i)[k].path # Star
       /\ \E k \in 1..Len(WritesOf(j)) :
            /\ WritesOf(j)[k].mode = "handler"
            /\ InQueue(log[j].modified, WritesOf(j)[k].path)

\* A step in which the store was written: by a state-changing set or a hydrate.
StoreWritten == Len(stores'[1].writes) > Len(stores[1].writes)

\* The path of the write such a step makes.
WrittenPath == stores'[1].writes[Len(stores'[1].writes)].path

\* C25: a store never has more than one flush scheduled; a write made while
\* a flush is pending adds its path to the pending batch (a path already in
\* it keeps its place) and schedules nothing, and a write made while none is
\* pending schedules exactly one.
AtMostOneFlushScheduled ==
  /\ [](\A s \in 1..Len(stores) : stores[s].scheduled \in {0, 1})
  /\ [][StoreWritten =>
          /\ stores'[1].eventQueue = AddKey(stores[1].eventQueue, WrittenPath)
          /\ stores'[1].scheduled = 1
          /\ stores'[1].promise
          /\ (stores[1].scheduled = 1 => stores[1].promise)]_vars

\* C25 witness: a hydrate made while the flush of a set was pending: both
\* paths are in the batch and one flush is scheduled.
HydrateJoinedPendingBatch ==
  /\ lastCall.kind = "hydrate"
  /\ stores[1].scheduled = 1
  /\ Len(stores[1].eventQueue) = 2
  /\ stores[1].eventQueue[2] = Star
  /\ Len(stores[1].writes) = 2

\* C26: when the listeners of an 'update' start to run, the store's pending
\* batch is empty, no promise is outstanding and no flush is scheduled, while
\* the emission carries the batch that was pending; and a write a listener
\* then makes starts a batch of its own, holding its path alone.
IdleWhenUpdateDelivered ==
  /\ [][\A s \in 1..Len(stores) :
          UpdateEmitted(s) =>
            /\ mode' = "handler"
            /\ stores[s].eventQueue # <<>>
            /\ log'[Len(log')].modified = ObjectKeys(stores[s].eventQueue)
            /\ stores'[s].eventQueue = <<>>
            /\ ~stores'[s].promise
            /\ stores'[s].scheduled = 0]_vars
  /\ [][(mode = "handler" /\ StoreWritten /\ stores[1].writes = <<>>) =>
          stores'[1].eventQueue = <<WrittenPath>>]_vars

\* C26 witness: a listener of an 'update' that reported todos wrote counter:
\* the pending batch holds counter alone and a new flush is scheduled.
ListenerStartedNewBatch ==
  /\ mode = "handler"
  /\ log # <<>>
  /\ log[Len(log)].ev = "update"
  /\ log[Len(log)].modified = << <<"todos">> >>
  /\ stores[1].eventQueue = << <<"counter">> >>
  /\ stores[1].scheduled = 1

\* C27: a call that writes its scope leaves that scope's cache holding
\* nothing but the entry of the call itself, and leaves the cache of every
\* other scope (sibling, ancestor or sub-scope) as it was.
SetClearsOwnCacheOnly ==
  [][ScopeWritten =>
       /\ \A q \in ScopePaths \ {lastCall'.path} : cache'[q] = cache[q]
       /\ \A m \in Methods \ {lastCall'.method} : cache'[lastCall'.path][m] = NoEntry
       /\ cache'[lastCall'.path][lastCall'.method] =
            [has |-> TRUE, args |-> lastCall'.args, result |-> lastCall'.value]]_vars

\* C27 witness: after values.get() and values.subValues.get() were cached,
\* values.subValues.update(...) wrote its scope: the get() of values is still
\* cached and the get() of values.subValues is not.
AncestorCacheKept ==
  /\ lastCall.kind = "call"
  /\ lastCall.path = <<"values.subValues">>
  /\ lastCall.method = "update"
  /\ nsets[lastCall.path] = 2
  /\ cache[<<"values">>]["get"].has
  /\ ~cache[<<"values.subValues">>]["get"].has
  /\ hist[<<"values.subValues">>]["get"].called

\* C28, as stated: no step changes what an object that already exists holds (its
\* elements and its properties), so every tree getState() ever returned stays
\* as it was; and a step that writes the store (a state-changing set or a
\* hydrate) leaves as its state a root object created during that step.
StateOnlyReplaced ==
  [][/\ Len(heap') >= Len(heap)
     /\ \A a \in 1..Len(heap) :
          /\ heap'[a].arr = heap[a].arr
          /\ heap'[a].items = heap[a].items
          /\ heap'[a].props = heap[a].props
     /\ StoreWritten =>
          /\ stores'[1].state # stores[1].state
          /\ IsRef(stores'[1].state)
          /\ stores'[1].state.n > Len(heap)
     /\ ~StoreWritten => stores'[1].state = stores[1].state]_vars

\* C29, as stated: in every state the container held at each scope's path is
\* frozen.
ScopeContainersFrozen ==
  stores # <<>> =>
    \A p \in ScopePaths :
      IsRef(NifeGet(heap, stores[1].state, p))
        => Deref(heap, NifeGet(heap, stores[1].state, p)).frozen

\* The scopes nested in the scope at path p.
SubScopes(p) ==
  {q \in ScopePaths :
     /\ Len(Split(q)) > Len(Split(p))
     /\ SubSeq(Split(q), 1, Len(Split(p))) = Split(p)}

\* C30: when a call replaces an array held at a scope's path by another
\* array, the new array is frozen and holds, under every non-index key of
\* the old one, the value the old one held; the value at the path of every
\* sub-scope is the one it was.
ArrayKeepsSubScopes ==
  [][ScopeWritten =>
       LET old == NifeGet(heap, stores[1].state, lastCall'.path)
           new == NifeGet(heap', stores'[1].state, lastCall'.path)
       IN (IsRef(old) /\ Deref(heap, old).arr /\ IsRef(new) /\ Deref(heap', new).arr)
            => /\ new # old
               /\ Deref(heap', new).frozen
               /\ \A key \in NonIndexKeys(heap, old) :
                    GetProp(heap', new, key) = GetProp(heap, old, key)
               /\ \A q \in SubScopes(lastCall'.path) :
                    /\ NifeGet(heap', stores'[1].state, q) = NifeGet(heap, stores[1].state, q)
                    /\ Tree(heap', NifeGet(heap', stores'[1].state, q))
                         = Tree(heap, NifeGet(heap, stores[1].state, q))]_vars

\* C30 witness: items.subItems was updated and then an item was put in
\* items: the new list holds the item and, under subItems, the updated object.
PutKeptSubItems ==
  /\ lastCall.kind = "call"
  /\ lastCall.path = <<"items">>
  /\ lastCall.method = "put"
  /\ lastCall.ran = 1
  /\ ~lastCall.threw
  /\ nsets[<<"items.subItems">>] = 2
  /\ IsRef(NifeGet(heap, stores[1].state, <<"items">>))
  /\ Len(Deref(heap, NifeGet(heap, stores[1].state, <<"items">>)).items) = 1
  /\ IsRef(lastCall.was)
  /\ IsRef(NifeGet(heap, stores[1].state, <<"items.subItems">>))
  /\ NifeGet(heap, stores[1].state, <<"items.subItems">>)
       = GetProp(heap, lastCall.was, "subItems")
  /\ "id" \in DOMAIN Deref(heap, NifeGet(heap, stores[1].state, <<"items.subItems">>)).props

\* The names under which the scopes nested directly in the scope at path p
\* are held in its value.
ChildNames(p) ==
  {Split(q)[Len(Split(q))] : q \in {r \in SubScopes(p) : Len(Split(r)) = Len(Split(p)) + 1}}

\* The index in the template of the scope at path p.
ScopeIndex(p) == CHOOSE i \in 1..Len(template) : <<template[i].name>> = p

\* v is what seeding leaves for scope i: the default itself for a number; for
\* a container another object of the same kind, with the default's elements
\* and properties, and in addition one property per directly nested scope,
\* holding that scope's value.
SeededFrom(v, i) ==
  IF template[i].kind = "num" THEN v = Num(0)
  ELSE /\ IsRef(v)
       /\ v # DefaultOf(i)
       /\ Deref(heap, v).arr = Deref(heap, DefaultOf(i)).arr
       /\ Deref(heap, v).items = Deref(heap, DefaultOf(i)).items
       /\ DOMAIN Deref(heap, v).props
            = (DOMAIN Deref(heap, DefaultOf(i)).props) \cup ChildNames(<<template[i].name>>)
       /\ \A key \in (DOMAIN Deref(heap, DefaultOf(i)).props) \ ChildNames(<<template[i].name>>) :
            Deref(heap, v).props[key] = Deref(heap, DefaultOf(i)).props[key]
       /\ \A q \in SubScopes(<<template[i].name>>) :
            Len(Split(q)) = Len(Split(<<template[i].name>>)) + 1 =>
              /\ IsRef(Deref(heap, v).props[Split(q)[Len(Split(q))]])
              /\ Deref(heap, v).props[Split(q)[Len(Split(q))]]
                   = NifeGet(heap, stores[1].state, q)

\* C31: before any call is made, the value at every scope's path is the
\* seeded copy of the scope's default, the values of its sub-scopes held in
\* it under their names (on an array as well); and get(), called first,
\* runs and returns that value.
DefaultsSeeded ==
  /\ (stores # <<>> /\ ops = 0) =>
       \A i \in 1..Len(template) :
         SeededFrom(NifeGet(heap, stores[1].state, <<template[i].name>>), i)
  /\ (lastCall.kind = "call" /\ lastCall.seq = 1
        /\ lastCall.method = "get" /\ lastCall.args = <<>>) =>
       /\ ~lastCall.threw
       /\ lastCall.ran = 1
       /\ lastCall.value = lastCall.was
       /\ SeededFrom(lastCall.value, ScopeIndex(lastCall.path))

\* C31 witness: items.get(), the first call made, returned an empty array
\* that is not the template's and holds the seeded value of items.subItems
\* under subItems.
ArrayDefaultHoldsSubScope ==
  /\ lastCall.kind = "call"
  /\ lastCall.seq = 1
  /\ lastCall.path = <<"items">>
  /\ lastCall.method = "get"
  /\ IsRef(lastCall.value)
  /\ Deref(heap, lastCall.value).arr
  /\ Deref(heap, lastCall.value).items = <<>>
  /\ lastCall.value # DefaultOf(1)
  /\ IsRef(GetProp(heap, lastCall.value, "subItems"))
  /\ GetProp(heap, lastCall.value, "subItems") # DefaultOf(2)
  /\ Deref(heap, GetProp(heap, lastCall.value, "subItems")).props
       = Deref(heap, DefaultOf(2)).props

\* C32: until the first call is made the store has an empty batch, no
\* promise and no flush scheduled, and nothing was emitted; and every path an
\* 'update' lists was written after construction: a scope seeded once has
\* been set once more, and '*' stands for a hydrate.
ConstructionIsSilent ==
  /\ (stores # <<>> /\ ops = 0) =>
       /\ log = <<>>
       /\ stores[1].eventQueue = <<>>
       /\ ~stores[1].promise
       /\ stores[1].scheduled = 0
       /\ \A p \in ScopePaths : nsets[p] = 1
  /\ \A i \in Updates : \A k \in 1..Len(log[i].modified) :
       IF log[i].modified[k] = Star THEN nhyd > 0
       ELSE /\ log[i].modified[k] \in ScopePaths
            /\ nsets[log[i].modified[k]] > 1

\* C32 witness: the first 'update' after construction lists counter alone,
\* the one scope written since, though todos was seeded as well.
FirstUpdateListsOnlyWritten ==
  /\ Cardinality(Updates) = 1
  /\ \E i \in Updates : log[i].modified = << <<"counter">> >>
  /\ nsets[<<"counter">>] = 2
  /\ nsets[<<"todos">>] = 1
  /\ nhyd = 0

\* C33: a method's cache entry, when there is one, holds the arguments and
\* the result of the method's last call; a call whose arguments differ from
\* those of the method's last call runs the body, and so does the third call
\* of m(a), m(b), m(a), which repeats the arguments of the call before the
\* last one.
OneCacheEntryPerMethod ==
  /\ stores # <<>> =>
       \A p \in ScopePaths : \A m \in MethodsOf(KindOf(p)) :
         cache[p][m].has =>
           /\ hist[p][m].called
           /\ cache[p][m].args = hist[p][m].args
           /\ cache[p][m].result = hist[p][m].value
  /\ (lastCall.kind = "call" /\ lastCall.prev.called
        /\ lastCall.prev.args # lastCall.args) => lastCall.ran = 1
  /\ (lastCall.kind = "call" /\ lastCall.prev.earlier = <<lastCall.args>>
        /\ lastCall.prev.args # lastCall.args) => lastCall.ran = 1

\* C33 witness: todos.get(), todos.get(1), todos.get() with nothing else
\* done: the third call ran the body, and the cache holds its arguments.
ThirdCallRanAgain ==
  /\ ops = 3
  /\ lastCall.kind = "call"
  /\ lastCall.path = <<"todos">>
  /\ lastCall.method = "get"
  /\ lastCall.args = <<>>
  /\ lastCall.prev.args = <<Num(1)>>
  /\ lastCall.prev.earlier = << <<>> >>
  /\ hist[<<"todos">>]["get"].count = 3
  /\ ~lastCall.setSince
  /\ ~lastCall.hydSince
  /\ lastCall.ran = 1
  /\ cache[<<"todos">>]["get"].args = <<>>

\* A value with everything reachable from it: what a reader of the value
\* finds, addresses and frozenness left out.
RECURSIVE Content(_, _)
Content(h, v) ==
  IF ~IsRef(v) THEN v
  ELSE [arr   |-> h[v.n].arr,
        items |-> [i \in 1..Len(h[v.n].items) |-> Content(h, h[v.n].items[i])],
        props |-> [key \in DOMAIN h[v.n].props |-> Content(h, h[v.n].props[key])]]

\* The snapshots handed to listeners as previousStore so far.
Snapshots == {log[i].previousStore : i \in Updates}

\* C34, as stated: a snapshot delivered as previousStore is read-only; a
\* method called on it does not throw for what it sets, leaves the snapshot
\* and the live store as they were, and a get() on it returns what the
\* snapshot holds; and no step at all, a later write to the live store
\* included, changes what the snapshot's state holds.
SnapshotNeverChanges ==
  /\ [](\A u \in Snapshots : stores[u].readOnly /\ Deref(heap, stores[u].state).frozen)
  /\ [][(lastCall'.seq # lastCall.seq /\ lastCall'.store \in Snapshots) =>
          /\ stores' = stores
          /\ cache' = cache
          /\ Content(heap', stores'[1].state) = Content(heap, stores[1].state)
          /\ lastCall'.ran = 1
          /\ lastCall'.method = "get" => lastCall'.value = lastCall'.was]_vars
  /\ [][\A u \in Snapshots :
          /\ stores'[u].state = stores[u].state
          /\ Content(heap', stores'[u].state) = Content(heap, stores[u].state)]_vars

\* C35, as stated: a get() answered from the cache returns the value the
\* store holds at the scope's path, which is what the body would return.
CachedGetIsCurrent ==
  (lastCall.kind = "call" /\ lastCall.store = 1 /\ lastCall.method = "get"
     /\ lastCall.args = <<>> /\ lastCall.ran = 0)
    => lastCall.value = NifeGet(heap, stores[1].state, lastCall.path)

\* C36, as stated: a call that sets a scope to an array or to a plain object
\* leaves the value at the path of each of its sub-scopes as it was.
ParentSetKeepsSubScopes ==
  [][(ScopeWritten /\ IsRef(NifeGet(heap', stores'[1].state, lastCall'.path))) =>
       \A q \in SubScopes(lastCall'.path) :
         NifeGet(heap', stores'[1].state, q) = NifeGet(heap, stores[1].state, q)]_vars

\* C37, as stated: hydrate on a writable clone returns without throwing,
\* leaves the clone holding a frozen copy of the given state with '*' queued
\* and a flush scheduled for the clone, and leaves every cache empty.
WritableCloneHydrates ==
  (lastCall.kind = "hydrate" /\ lastCall.store \in UserClones) =>
    /\ ~lastCall.threw
    /\ DeepEqual(heap, stores[lastCall.store].state, lastCall.input)
    /\ InQueue(stores[lastCall.store].eventQueue, Star)
    /\ stores[lastCall.store].scheduled = 1
    /\ \A p \in ScopePaths : cache[p] = EmptyCache

\* C38: every 'update' has a non-empty modified, and each entry is '*' with
\* a hydrate among the writes the emission reports, or the path of a scope
\* with, among those writes, a set that changed the value at that path; a
\* flush is scheduled only while there is a write to report, and a call that
\* writes nothing queues nothing and schedules nothing.
UpdatesReportOnlyWrites ==
  /\ [](\A i \in Updates :
          /\ log[i].modified # <<>>
          /\ \A k \in 1..Len(log[i].modified) :
               \E n \in 1..Len(WritesOf(i)) :
                 /\ WritesOf(i)[n].path = log[i].modified[k]
                 /\ \/ WritesOf(i)[n].path = Star
                    \/ ~DeepEqual(heap,
                                  NifeGet(heap, WritesOf(i)[n].from, WritesOf(i)[n].path),
                                  NifeGet(heap, WritesOf(i)[n].to, WritesOf(i)[n].path)))
  /\ [](\A s \in 1..Len(stores) : stores[s].scheduled > 0 => stores[s].writes # <<>>)
  /\ [][(MethodCalled /\ ~StoreWritten) =>
          /\ stores'[1].eventQueue = stores[1].eventQueue
          /\ stores'[1].scheduled = stores[1].scheduled
          /\ stores'[1].promise = stores[1].promise]_vars

\* C38 witness: counter.set(0) ran on a counter that was 0 and todos.add(1)
\* wrote todos; the 'update' that followed lists todos alone.
NoOpSetNotReported ==
  /\ hist[<<"counter">>]["set"].called
  /\ hist[<<"counter">>]["set"].args = <<Num(0)>>
  /\ nsets[<<"counter">>] = 1
  /\ nhyd = 0
  /\ Cardinality(Updates) = 1
  /\ \E i \in Updates : log[i].modified = << <<"todos">> >>

\* A listener of 'update' has thrown.
Thrown == Throws # {}

\* C39: a listener of 'update' that throws changes nothing in the notifier,
\* so after a throw with no write of the listeners pending the batch is empty
\* and no flush is marked as scheduled; a state-changing set or hydrate made
\* after a throw, with nothing pending, puts its path in the batch and
\* schedules one flush; and every write pending after a throw is eventually
\* reported by an 'update'.
ThrowLeavesNotifierIdle ==
  /\ [][(Len(log') = Len(log) + 1 /\ log'[Len(log')].ev = "throw") =>
          stores' = stores]_vars
  /\ []((Thrown /\ stores[1].writes = <<>>) =>
          /\ stores[1].eventQueue = <<>>
          /\ ~stores[1].promise
          /\ stores[1].scheduled = 0)
  /\ [][(Thrown /\ StoreWritten /\ stores[1].writes = <<>>) =>
          /\ stores'[1].eventQueue = <<WrittenPath>>
          /\ stores'[1].promise
          /\ stores'[1].scheduled = 1]_vars
  /\ \A p \in TodoPaths : (Thrown /\ Pending(p)) ~> (Thrown /\ stores[1].writes = <<>>)

\* C39 witness: a listener threw during the delivery of the first 'update',
\* a write made in a later block by the caller was reported by the second.
WriteAfterThrowReported ==
  \E t \in Throws : \E i, j \in Updates :
    /\ i < t /\ t < j
    /\ log[j].modified # <<>>
    /\ \A k \in 1..Len(WritesOf(j)) :
         /\ WritesOf(j)[k].mode = "caller"
         /\ WritesOf(j)[k].block >= log[t].block + 1
         /\ InQueue(log[j].modified, WritesOf(j)[k].path)

====
